---- MODULE Spec2Model ----
(***************************************************************************)
(* A model of the measurement orchestration of experiment.py, with the     *)
(* keyboard listener of utilities.py and the queue protocol of plotter.py. *)
(*                                                                         *)
(* Conventions                                                             *)
(*   - Python None is the string "None" where the slot otherwise holds a   *)
(*     string, and the empty sequence << >> where it otherwise holds a     *)
(*     numpy array (an array of the program always has at least one row).  *)
(*   - A value handed to a setter or returned by a getter is a record      *)
(*     [scalar, val]: a Python scalar x is [scalar |-> TRUE, val |-> <<x>>]*)
(*     and a 1-D array is [scalar |-> FALSE, val |-> <<...>>].             *)
(*   - A 2-D array is a sequence of rows, each row a sequence of numbers.  *)
(***************************************************************************)
EXTENDS Integers, Sequences, FiniteSets, TLC

\* Bounds of the model
MaxLen == 2
MaxBatch == 2
MaxStopPuts == 2
MaxPts == 7
MaxLine == 3
MaxKeys == 3
MaxFaultIter == 2

VARIABLES
    \* ---- constructor arguments (experiment.py:55-61)
    variables,            \* list of variable names
    responses,            \* list of response names
    varLists,             \* one domain per variable
    skipVarSetIfSame,     \* list of bool (normalised at experiment.py:144-145)
    ptsPerMeasure,        \* batch size
    parameters,           \* [isDict, items]: the caller's parameter mapping
    multiThreadReadWrite, \* threaded I/O mode
    saveArg,              \* the constructor's save argument
    basePathAbs,          \* os.path.isabs(basePath)
    fault,                \* how the subclass's accessors misbehave: [kind, idx, iter]
    \* ---- Experiment state
    pc,                   \* position of the main thread
    error,                \* the exception that left the main thread, or "None"
    completed,            \* self._completed
    preVarArray,          \* self._preVarArray (<< >> is None)
    ptsCount,             \* self._ptsCount
    results,              \* self._results (<< >> is None)
    resultsDF,            \* self.results: "unset", "None" or "DataFrame"
    varArray,             \* the batch pulled by the current iteration
    dataArray,            \* the block assembled by the current iteration
    genPos,               \* tuples the grid generator has yielded so far
    genExhausted,         \* the generator has raised StopIteration
    \* ---- instruments (the attributes behind the names)
    paramAttrs,           \* parameter name -> value set by setattr
    parametersRead,       \* self.parametersRead: parameter name -> value read back
    instr,                \* variable index -> value last passed to its setter
    setLog,               \* setter calls of the current iteration, in order
    getLog,               \* getter calls of the current iteration, in order
    nIter,                \* loop bodies of measure() entered so far
    \* ---- threaded mode (experiment.py:289-392)
    threadsStarted,       \* _createThreads has run
    varQueue,             \* variable index -> its worker's request queue
    respQueue,            \* response index -> its worker's request queue
    setWorker,            \* variable index -> "idle" | "counting" | "dead"
    getWorker,            \* response index -> "idle" | "dead"
    alreadySet,           \* self._alreadySet
    shouldSet,            \* local shouldSet of _setVariblesMultiThread
    currRlt,              \* self._currRlt: response index -> value (partial)
    \* ---- KeyboardListener (utilities.py:17-58)
    klLock,               \* KeyboardListener._lock: "None" | "Lock" | "unset"
    klPlotter,            \* KeyboardListener._plotter: "None" | "bool" | "Plotter"
    stopFlag, pauseFlag, saveFlag,
    listenerAlive,        \* the pynput listener thread is running
    lastKey,              \* the last key delivered to _onRelease, or "None"
    keyCount,             \* key events delivered to _onRelease so far
    stopKey,              \* when the stop key was delivered: [iter, exited]
    \* ---- plotter process and its queue (plotter.py:260-309)
    plotQueue,            \* every message put on Plotter._queue, in order
    plotRead,             \* how many of them the consumer has dequeued
    plotterProc,          \* "unset" | "alive" | "exited"
    continuePlotting,     \* local of Plotter._plotQueue
    plotBuf,              \* Plotter._buf: the rows buffered, in order (<< >> is empty)
    plotLines,            \* the lines drawn on the axes, each the rows plotted on it
    plotSaveFlag,         \* Plotter._saveFlag of the plotter process
    stopPuts,             \* STOP sentinels put by measure()
    \* ---- persistence (experiment.py:451-472)
    logSaved, dataSaved,
    header                \* the entries of the header written with the data

argVars == <<variables, responses, varLists, ptsPerMeasure, multiThreadReadWrite,
             saveArg, basePathAbs, fault>>
loopVars == <<completed, preVarArray, ptsCount, results, resultsDF, varArray,
              dataArray, genPos, genExhausted, nIter>>
instrVars == <<instr, setLog, getLog>>
threadVars == <<varQueue, respQueue, setWorker, getWorker, alreadySet, shouldSet,
                currRlt>>
flagVars == <<stopFlag, pauseFlag, saveFlag>>
keyVars == <<listenerAlive, lastKey, keyCount, stopKey>>
plotVars == <<plotQueue, plotRead, plotterProc, continuePlotting, plotBuf, plotLines,
              plotSaveFlag, stopPuts>>
saveVars == <<logSaved, dataSaved, header>>

vars == <<variables, responses, varLists, skipVarSetIfSame, ptsPerMeasure, parameters,
          multiThreadReadWrite, saveArg, basePathAbs, fault, pc, error, completed,
          preVarArray, ptsCount, results, resultsDF, varArray, dataArray, genPos,
          genExhausted, paramAttrs, parametersRead, instr, setLog, getLog, nIter,
          threadsStarted, varQueue, respQueue, setWorker, getWorker, alreadySet,
          shouldSet, currRlt, klLock, klPlotter, stopFlag, pauseFlag, saveFlag,
          listenerAlive, lastKey, keyCount, stopKey, plotQueue, plotRead,
          plotterProc, continuePlotting, plotBuf, plotLines, plotSaveFlag, stopPuts,
          logSaved, dataSaved, header>>

----------------------------------------------------------------------------
\* Small helpers

Max(a, b) == IF a >= b THEN a ELSE b
Min(a, b) == IF a <= b THEN a ELSE b

RECURSIVE Prod(_)
Prod(s) == IF Len(s) = 0 THEN 1 ELSE Head(s) * Prod(Tail(s))

RECURSIVE Flatten(_)
Flatten(ss) == IF Len(ss) = 0 THEN << >> ELSE Head(ss) \o Flatten(Tail(ss))

NVars == Len(variables)
NResp == Len(responses)

Scalar(x) == [scalar |-> TRUE, val |-> <<x>>]
Vector(s) == [scalar |-> FALSE, val |-> s]
\* The stored value of a variable whose setter has not run; the program never
\* reads it (the first iteration sets every variable before any getter runs).
Unset == [scalar |-> TRUE, val |-> << -1 >>]

Column(arr, i) == [k \in 1..Len(arr) |-> arr[k][i]]

\* The stop key has not been delivered.
NoStopKey == [iter |-> -1, exited |-> FALSE]

\* str(b) for a Python bool
Str(b) == IF b THEN "True" ELSE "False"

----------------------------------------------------------------------------
\* Grid enumerator (experiment.py:394-408)

RECURSIVE HelperFirstFastest(_)
\* A variant that pushes each value at the front of the stack
\* (stack.insert(0, x)), which reverses the coordinates of every tuple.
HelperFirstFastest(stack) ==
    IF Len(stack) = Len(variables)
    THEN << stack >>
    ELSE LET dom == varLists[Len(stack) + 1]
         IN  Flatten([k \in 1..Len(dom) |-> HelperFirstFastest(<< dom[k] >> \o stack)])

RECURSIVE VarGridIteratorHelper(_)
\* The tuples the generator yields from `stack`, in order: depth first, one
\* level of the recursion per variable, the domain of variable Len(stack)+1
\* iterated in its own order.
VarGridIteratorHelper(stack) ==
    IF Len(stack) = Len(variables)
    THEN << stack >>
    ELSE LET dom == varLists[Len(stack) + 1]
         IN  Flatten([k \in 1..Len(dom) |-> VarGridIteratorHelper(Append(stack, dom[k]))])

VarGridIterator == VarGridIteratorHelper(<< >>)

----------------------------------------------------------------------------
\* The instruments bound by name (example.py:54-104): the setter of variable
\* i stores what it is given; the response getters are deterministic
\* functions of the stored values.

VariableNames == <<"x0", "x1">>
ResponseNames == <<"y1", "y2">>

\* Elementwise sum of the stored values of all variables (example.py:56-58,
\* without the noise term).
SumVals(vals) ==
    LET n == IF Len(vals) = 0 THEN 0 ELSE Len(vals[1].val)
        RECURSIVE At(_, _)
        At(k, i) == IF i > Len(vals) THEN 0
                    ELSE (IF k <= Len(vals[i].val) THEN vals[i].val[k] ELSE 0) + At(k, i + 1)
    IN  [scalar |-> \A i \in 1..Len(vals) : vals[i].scalar,
         val |-> [k \in 1..n |-> At(k, 1)]]

\* getattr(self, response): y1 reads every stored variable, y2 reads the last
\* variable back (example.py:66-69, without the noise term).
GetAttr(r, store) ==
    IF r = 1 THEN SumVals(store) ELSE store[Len(store)]

\* The accessors are the subclass's properties, called through setattr and
\* getattr (experiment.py:320, 351, 365, 391); the base class puts no
\* condition on them. `fault` says how one of them departs from the
\* accessors above: the setter of variable idx ("setRaises") or the getter of
\* response idx ("getRaises") raises when it is called in iteration iter, or
\* the getter of response idx returns one number whatever the batch size
\* ("getScalar").
NoFault == [kind |-> "none", idx |-> 0, iter |-> 0]
SetRaises(i) == fault.kind = "setRaises" /\ fault.idx = i /\ fault.iter = nIter
GetRaises(j) == fault.kind = "getRaises" /\ fault.idx = j /\ fault.iter = nIter

\* What getattr(self, response) returns for response j.
Reading(j, store) ==
    IF fault.kind = "getScalar" /\ fault.idx = j
    THEN Scalar(GetAttr(j, store).val[1])
    ELSE GetAttr(j, store)

\* The parameters in the order of the mapping (a dict keeps insertion order;
\* 'pause' is added last, experiment.py:135-136).
ParameterOrder == <<"p1", "p2", "pause">>
ParameterKeys(items) == SelectSeq(ParameterOrder, LAMBDA k : k \in DOMAIN items)

\* getattr(self, parameter): p2 is a property whose getter returns 2.71828
\* whatever was set (example.py:74-79); the other parameters are plain
\* attributes and read back what setattr stored.
ReadBack(name, attrs) == IF name = "p2" THEN "2.71828" ELSE attrs[name]

----------------------------------------------------------------------------
\* Initial state: the arguments of Experiment(...), nothing constructed yet.

Domains == {[k \in 1..n |-> k - 1] : n \in 0..MaxLen}
BatchSizes == 1..MaxBatch
SkipLists == UNION {[1..n -> BOOLEAN] : n \in 0..Len(VariableNames)}
VarListsArgs == UNION {[1..n -> Domains] : n \in 1..Len(VariableNames)}
\* The parameters of example.py:27, and the default parameters={}
\* (experiment.py:56); a value is written as str() prints it.
ParameterItems == ("p1" :> "1") @@ ("p2" :> "2")
NoParameterItems == [k \in {} |-> "0"]

Unconstructed ==
    /\ error = "None"
    /\ completed = TRUE
    /\ preVarArray = << >>
    /\ ptsCount = 0
    /\ results = << >>
    /\ resultsDF = "unset"
    /\ varArray = << >>
    /\ dataArray = << >>
    /\ genPos = 0
    /\ genExhausted = FALSE
    /\ paramAttrs = << >>
    /\ parametersRead = << >>
    /\ instr = [i \in 1..Len(variables) |-> Unset]
    /\ setLog = << >>
    /\ getLog = << >>
    /\ nIter = 0
    /\ threadsStarted = FALSE
    /\ varQueue = [i \in 1..Len(variables) |-> << >>]
    /\ respQueue = [j \in 1..Len(responses) |-> << >>]
    /\ setWorker = [i \in 1..Len(variables) |-> "idle"]
    /\ getWorker = [j \in 1..Len(responses) |-> "idle"]
    /\ alreadySet = 0
    /\ shouldSet = 0
    /\ currRlt = << >>
    /\ klLock = "unset"
    /\ klPlotter = "None"
    /\ stopFlag = FALSE
    /\ pauseFlag = FALSE
    /\ saveFlag = FALSE
    /\ listenerAlive = FALSE
    /\ lastKey = "None"
    /\ keyCount = 0
    /\ stopKey = NoStopKey
    /\ plotQueue = << >>
    /\ plotRead = 0
    /\ plotterProc = "unset"
    /\ continuePlotting = TRUE
    /\ plotBuf = << >>
    /\ plotLines = << >>
    /\ plotSaveFlag = TRUE
    /\ stopPuts = 0
    /\ logSaved = FALSE
    /\ dataSaved = FALSE
    /\ header = {}

Init ==
    /\ variables = VariableNames
    /\ responses = ResponseNames
    /\ varLists \in VarListsArgs
    /\ skipVarSetIfSame \in SkipLists
    /\ ptsPerMeasure \in BatchSizes
    /\ parameters \in {[isDict |-> TRUE, items |-> NoParameterItems],
                       [isDict |-> FALSE, items |-> NoParameterItems]}
    /\ multiThreadReadWrite \in BOOLEAN
    /\ saveArg \in BOOLEAN
    /\ basePathAbs \in BOOLEAN
    /\ fault = NoFault
    /\ pc = "new"
    /\ Unconstructed

----------------------------------------------------------------------------
\* Experiment.__init__ (experiment.py:110-155)

\* _validateInputs (experiment.py:188-194): TRUE when an exception is raised.
ValidateInputsRaises ==
    \/ ~basePathAbs
    \/ ~parameters.isDict
    \/ Len(variables) # Len(varLists)

\* experiment.py:135-136: 'pause' is added to the caller's mapping when absent.
WithPause(items) ==
    IF "pause" \in DOMAIN items THEN items ELSE items @@ ("pause" :> "0")

\* _getParametersSingleThread (experiment.py:221-225)
GetParametersSingleThread(items) ==
    [name \in DOMAIN items |-> ReadBack(name, items)]

\* _getParametersMultiThread (experiment.py:227-238). Every reader thread runs
\* parametersRead[key] = getattr(self, key) with `key` the variable of the
\* constructing thread's for loop, which moves on to the next key while the
\* readers run. The reader started for key t reads `key` once for getattr
\* and once more for the store, and sees position a and then b with
\* t <= a <= b. The entry of key b is then absent when no reader stored
\* under it, and holds what the last reader w to store under it read (w <= a
\* <= b). The reader of the last key always stores under it.
GetParametersMultiThread(items) ==
    LET keys == ParameterKeys(items)
        n == Len(keys)
        Writers == {w \in [1..n -> 0..n] :
                       /\ w[n] # 0
                       /\ \A b \in 1..n : w[b] <= b
                       /\ \A b1, b2 \in 1..n :
                              (b1 # b2 /\ w[b1] # 0) => w[b1] # w[b2]}
        Reads(w) == {a \in [1..n -> 1..n] :
                       \A b \in 1..n : w[b] # 0 => (w[b] <= a[b] /\ a[b] <= b)}
        Pos(name) == CHOOSE b \in 1..n : keys[b] = name
    IN  UNION {{[name \in {keys[b] : b \in {c \in 1..n : w[c] # 0}} |->
                     ReadBack(keys[a[Pos(name)]], items)] : a \in Reads(w)}
               : w \in Writers}

\* _getParameters (experiment.py:215-219): the mappings the call can return.
GetParameters(items) ==
    IF multiThreadReadWrite
    THEN GetParametersMultiThread(items)
    ELSE {GetParametersSingleThread(items)}

\* experiment.py:144-145
NormalisedSkip(skip) ==
    IF Len(skip) = 0 THEN [i \in 1..Len(variables) |-> FALSE] ELSE skip

\* KeyboardListener.__init__(self, lock=Lock(), plotterObj=None, saveFlag=True)
\* (utilities.py:22-27) as called at experiment.py:148, KeyboardListener(None,
\* save): the two positional arguments bind to lock and plotterObj, and
\* saveFlag keeps its default.
KeyboardListenerCall(save) ==
    [lock |-> "None", plotterObj |-> "bool", saveFlag |-> TRUE]

ExperimentInit ==
    /\ pc = "new"
    /\ IF ValidateInputsRaises
       THEN /\ pc' = "raised"
            /\ error' = "Exception"
            /\ UNCHANGED <<skipVarSetIfSame, parameters, paramAttrs, parametersRead,
                           threadsStarted, klLock, klPlotter, flagVars, keyVars,
                           plotVars>>
       ELSE LET kl == KeyboardListenerCall(saveArg)
            IN  /\ parameters' = [parameters EXCEPT !.items = WithPause(@)]
                /\ paramAttrs' = WithPause(parameters.items)
                /\ parametersRead' \in GetParameters(WithPause(parameters.items))
                /\ skipVarSetIfSame' = NormalisedSkip(skipVarSetIfSame)
                /\ klLock' = kl.lock
                /\ klPlotter' = "Plotter"
                /\ stopFlag' = FALSE
                /\ pauseFlag' = FALSE
                /\ saveFlag' = kl.saveFlag
                /\ listenerAlive' = TRUE
                /\ plotterProc' = "alive"
                /\ threadsStarted' = multiThreadReadWrite
                /\ pc' = "constructed"
                /\ UNCHANGED <<error, lastKey, keyCount, stopKey, plotQueue, plotRead,
                               continuePlotting, plotBuf, plotLines, plotSaveFlag, stopPuts>>
    /\ ptsPerMeasure' = Max(1, ptsPerMeasure)
    /\ UNCHANGED <<variables, responses, varLists, multiThreadReadWrite, saveArg,
                   basePathAbs, fault, loopVars, instrVars, threadVars, saveVars>>

\* measure(), experiment.py:244-247: the generator is created and
\* self._results is None.
MeasureBegin ==
    /\ pc = "constructed"
    /\ pc' = "testPause"
    /\ results' = << >>
    /\ genPos' = 0
    /\ genExhausted' = FALSE
    /\ nIter' = 1
    /\ UNCHANGED <<variables, responses, varLists, skipVarSetIfSame, ptsPerMeasure,
                   parameters, multiThreadReadWrite, saveArg, basePathAbs, fault, error,
                   completed, preVarArray, ptsCount, resultsDF, varArray, dataArray,
                   paramAttrs, parametersRead, instrVars, threadsStarted, threadVars, klLock,
                   klPlotter, flagVars, keyVars, plotVars, saveVars>>

----------------------------------------------------------------------------
\* The measurement loop (experiment.py:248-267)

\* A variant of the wait's test that reads the pause flag only.
PauseFlagOnly(p, s) == IF p THEN 1 ELSE 0

\* self._keyboardListener.pauseFlag & ~self._keyboardListener.stopFlag on
\* Python bools (experiment.py:280): ~s is -s-1 and & keeps the low bit.
PauseAndNotStop(p, s) ==
    LET pInt == IF p THEN 1 ELSE 0
        notS == -(IF s THEN 1 ELSE 0) - 1
    IN  pInt * (notS % 2)

\* _testPause (experiment.py:277-282): the loop spins while the value is
\* truthy and returns on the first read that is not.
TestPause ==
    /\ pc = "testPause"
    /\ PauseAndNotStop(pauseFlag, stopFlag) = 0
    /\ pc' = "pull"
    /\ UNCHANGED <<variables, responses, varLists, skipVarSetIfSame, ptsPerMeasure,
                   parameters, multiThreadReadWrite, saveArg, basePathAbs, fault, error,
                   loopVars, paramAttrs, parametersRead, instrVars, threadsStarted, threadVars,
                   klLock, klPlotter, flagVars, keyVars, plotVars, saveVars>>

\* experiment.py:251-252 with the handler at 266-267: ptsPerMeasure calls of
\* next(); a StopIteration raised by any of them leaves the list
\* comprehension, so the tuples already drawn for this batch are lost with it.
PullBatch ==
    /\ pc = "pull"
    /\ LET grid == VarGridIterator
       IN  IF Len(grid) - genPos >= ptsPerMeasure
           THEN /\ varArray' = SubSeq(grid, genPos + 1, genPos + ptsPerMeasure)
                /\ genPos' = genPos + ptsPerMeasure
                /\ pc' = "checkStop"
                /\ UNCHANGED genExhausted
           ELSE /\ genPos' = Len(grid)
                /\ genExhausted' = TRUE
                /\ pc' = "stopPlot"
                /\ UNCHANGED varArray
    /\ UNCHANGED <<variables, responses, varLists, skipVarSetIfSame, ptsPerMeasure,
                   parameters, multiThreadReadWrite, saveArg, basePathAbs, fault, error,
                   completed, preVarArray, ptsCount, results, resultsDF, dataArray,
                   nIter, paramAttrs, parametersRead, instrVars, threadsStarted, threadVars, klLock,
                   klPlotter, flagVars, keyVars, plotVars, saveVars>>

\* A variant of the loop without the test of the stop flag after the pull.
CheckStopIgnored ==
    /\ pc = "checkStop"
    /\ pc' = "set"
    /\ setLog' = << >>
    /\ getLog' = << >>
    /\ UNCHANGED <<variables, responses, varLists, skipVarSetIfSame, ptsPerMeasure,
                   parameters, multiThreadReadWrite, saveArg, basePathAbs, fault,
                   error, completed, preVarArray, ptsCount, results, resultsDF,
                   varArray, dataArray, genPos, genExhausted, nIter, paramAttrs,
                   parametersRead, instr, threadsStarted, threadVars, klLock,
                   klPlotter, flagVars, keyVars, plotVars, saveVars>>

\* experiment.py:253-255
CheckStop ==
    /\ pc = "checkStop"
    /\ IF stopFlag
       THEN /\ completed' = FALSE
            /\ pc' = "stopPlot"
            /\ UNCHANGED <<setLog, getLog>>
       ELSE /\ pc' = "set"
            /\ setLog' = << >>
            /\ getLog' = << >>
            /\ UNCHANGED completed
    /\ UNCHANGED <<variables, responses, varLists, skipVarSetIfSame, ptsPerMeasure,
                   parameters, multiThreadReadWrite, saveArg, basePathAbs, fault, error,
                   preVarArray, ptsCount, results, resultsDF, varArray, dataArray,
                   genPos, genExhausted, nIter, paramAttrs, parametersRead, instr, threadsStarted,
                   threadVars, klLock, klPlotter, flagVars, keyVars, plotVars,
                   saveVars>>

----------------------------------------------------------------------------
\* Setting the variables (experiment.py:305-354)

\* A variant of the skip test that compares the shapes of the two batches and
\* not the variable's columns.
SameShapeAsPrevious(i, arr) ==
    /\ preVarArray # << >>
    /\ Len(arr) = Len(preVarArray)

\* The first three conjuncts of the skip test (experiment.py:313-315, 327-329).
SameAsPrevious(i, arr) ==
    /\ preVarArray # << >>
    /\ Len(arr) = Len(preVarArray)
    /\ Column(arr, i) = Column(preVarArray, i)

\* The skip test reads self._skipVarSetIfSame[i] only when the conjuncts
\* before it hold; the read raises IndexError on a list that is too short.
SkipRaises(i, arr) == SameAsPrevious(i, arr) /\ i > Len(skipVarSetIfSame)

\* A variant of the skip test without its last conjunct: an unchanged column
\* is skipped whatever the variable's flag says.
SkipSetAnyFlag(i, arr) == SameAsPrevious(i, arr)

\* The whole skip test (experiment.py:313-316, 327-330).
SkipSet(i, arr) == SameAsPrevious(i, arr) /\ skipVarSetIfSame[i]

\* The first variable whose skip test raises, 0 when none does.
FirstRaise(arr) ==
    LET bad == {i \in 1..Len(variables) : SkipRaises(i, arr)}
    IN  IF bad = {} THEN 0 ELSE CHOOSE i \in bad : \A j \in bad : i <= j

\* A variant of the loop that goes through the variables from the last to the
\* first.
ToSetReversed(arr) ==
    LET last == IF FirstRaise(arr) = 0 THEN Len(variables) ELSE FirstRaise(arr) - 1
        fwd == SelectSeq([i \in 1..last |-> i], LAMBDA i : ~SkipSet(i, arr))
    IN  [k \in 1..Len(fwd) |-> fwd[Len(fwd) + 1 - k]]

\* The variables the loop gets to set, in declared order.
ToSet(arr) ==
    LET last == IF FirstRaise(arr) = 0 THEN Len(variables) ELSE FirstRaise(arr) - 1
    IN  SelectSeq([i \in 1..last |-> i], LAMBDA i : ~SkipSet(i, arr))

\* experiment.py:318-319, 332-333
SetValue(i, arr) ==
    LET val == Column(arr, i)
    IN  IF Len(val) = 1 THEN Scalar(val[1]) ELSE Vector(val)

\* The position in `todo` of the first variable whose setter raises, 0 when
\* none does.
SetFaultAt(todo) ==
    LET bad == {k \in 1..Len(todo) : SetRaises(todo[k])}
    IN  IF bad = {} THEN 0 ELSE CHOOSE k \in bad : \A m \in bad : k <= m

\* _setVariblesSingleThread (experiment.py:311-321): the setters are called in
\* the loop's order; an exception of a setter or of the skip test leaves the
\* loop and the method. setLog holds the calls made, the raising one included.
SetVariblesSingleThread ==
    /\ pc = "set"
    /\ ~multiThreadReadWrite
    /\ LET todo == ToSet(varArray)
           at == SetFaultAt(todo)
           called == IF at = 0 THEN todo ELSE SubSeq(todo, 1, at)
           stored == IF at = 0 THEN todo ELSE SubSeq(todo, 1, at - 1)
       IN  /\ instr' = [i \in 1..Len(variables) |->
                          IF \E k \in 1..Len(stored) : stored[k] = i
                          THEN SetValue(i, varArray) ELSE instr[i]]
           /\ setLog' = setLog \o
                 [k \in 1..Len(called) |->
                     [var |-> called[k], val |-> SetValue(called[k], varArray)]]
           /\ IF at # 0
              THEN /\ pc' = "aborted"
                   /\ error' = "SetterError"
                   /\ UNCHANGED preVarArray
              ELSE IF FirstRaise(varArray) # 0
              THEN /\ pc' = "aborted"
                   /\ error' = "IndexError"
                   /\ UNCHANGED preVarArray
              ELSE /\ pc' = "get"
                   /\ preVarArray' = varArray
                   /\ UNCHANGED error
    /\ UNCHANGED <<variables, responses, varLists, skipVarSetIfSame, ptsPerMeasure,
                   parameters, multiThreadReadWrite, saveArg, basePathAbs, fault, completed,
                   ptsCount, results, resultsDF, varArray, dataArray, genPos,
                   genExhausted, nIter, paramAttrs, parametersRead, getLog, threadsStarted, threadVars,
                   klLock, klPlotter, flagVars, keyVars, plotVars, saveVars>>

\* A variant of the enqueue loop that does not reset the counter of completed
\* sets.
SetVariblesMultiThreadPutNoReset ==
    /\ pc = "set"
    /\ multiThreadReadWrite
    /\ LET todo == ToSet(varArray)
       IN  /\ varQueue' = [i \in 1..Len(variables) |->
                             IF \E k \in 1..Len(todo) : todo[k] = i
                             THEN Append(varQueue[i], SetValue(i, varArray))
                             ELSE varQueue[i]]
           /\ shouldSet' = Len(todo)
    /\ IF FirstRaise(varArray) # 0
       THEN /\ pc' = "aborted"
            /\ error' = "IndexError"
       ELSE /\ pc' = "setWait"
            /\ UNCHANGED error
    /\ UNCHANGED <<variables, responses, varLists, skipVarSetIfSame, ptsPerMeasure,
                   parameters, multiThreadReadWrite, saveArg, basePathAbs, fault,
                   loopVars, paramAttrs, parametersRead, instrVars, threadsStarted,
                   respQueue, setWorker, getWorker, alreadySet, currRlt, klLock,
                   klPlotter, flagVars, keyVars, plotVars, saveVars>>

\* _setVariblesMultiThread, the enqueue loop (experiment.py:324-335)
SetVariblesMultiThreadPut ==
    /\ pc = "set"
    /\ multiThreadReadWrite
    /\ LET todo == ToSet(varArray)
       IN  /\ varQueue' = [i \in 1..Len(variables) |->
                             IF \E k \in 1..Len(todo) : todo[k] = i
                             THEN Append(varQueue[i], SetValue(i, varArray))
                             ELSE varQueue[i]]
           /\ shouldSet' = Len(todo)
    /\ alreadySet' = 0
    /\ IF FirstRaise(varArray) # 0
       THEN /\ pc' = "aborted"
            /\ error' = "IndexError"
       ELSE /\ pc' = "setWait"
            /\ UNCHANGED error
    /\ UNCHANGED <<variables, responses, varLists, skipVarSetIfSame, ptsPerMeasure,
                   parameters, multiThreadReadWrite, saveArg, basePathAbs, fault, loopVars,
                   paramAttrs, parametersRead, instrVars, threadsStarted, respQueue, setWorker, getWorker,
                   currRlt, klLock, klPlotter, flagVars, keyVars, plotVars, saveVars>>

\* A variant of the exit test that does not wait for the workers still to
\* count.
AllSetNoWait == alreadySet <= shouldSet

\* A variant of the exit test that is satisfied by the first worker to count.
AllSetFirstDone == shouldSet = 0 \/ alreadySet >= 1

\* A variant of the exit test that also ends the wait when a worker has died.
AllSetOrDead ==
    alreadySet = shouldSet \/ \E i \in 1..Len(variables) : setWorker[i] = "dead"

\* The exit test of the coordinator's wait (experiment.py:339-342).
AllSet == alreadySet = shouldSet

\* _setVariblesMultiThread, the wait and the assignment after it
\* (experiment.py:336-344); a poll that does not see the counts equal sleeps
\* and changes nothing.
SetVariblesMultiThreadWait ==
    /\ pc = "setWait"
    /\ AllSet
    /\ preVarArray' = varArray
    /\ pc' = "get"
    /\ UNCHANGED <<variables, responses, varLists, skipVarSetIfSame, ptsPerMeasure,
                   parameters, multiThreadReadWrite, saveArg, basePathAbs, fault, error,
                   completed, ptsCount, results, resultsDF, varArray, dataArray,
                   genPos, genExhausted, nIter, paramAttrs, parametersRead, instrVars, threadsStarted,
                   threadVars, klLock, klPlotter, flagVars, keyVars, plotVars,
                   saveVars>>

\* _setAttrQueue, dequeue and set (experiment.py:348-351). Nothing in the
\* worker catches an exception of the setter: it ends the worker thread, and
\* the increment at experiment.py:352-353 is never reached.
SetAttrQueueSet(i) ==
    /\ threadsStarted
    /\ setWorker[i] = "idle"
    /\ Len(varQueue[i]) > 0
    /\ varQueue' = [varQueue EXCEPT ![i] = Tail(@)]
    /\ setLog' = Append(setLog, [var |-> i, val |-> Head(varQueue[i])])
    /\ IF SetRaises(i)
       THEN /\ setWorker' = [setWorker EXCEPT ![i] = "dead"]
            /\ UNCHANGED instr
       ELSE /\ setWorker' = [setWorker EXCEPT ![i] = "counting"]
            /\ instr' = [instr EXCEPT ![i] = Head(varQueue[i])]
    /\ UNCHANGED <<variables, responses, varLists, skipVarSetIfSame, ptsPerMeasure,
                   parameters, multiThreadReadWrite, saveArg, basePathAbs, fault, pc, error,
                   loopVars, paramAttrs, parametersRead, getLog, threadsStarted, respQueue, getWorker,
                   alreadySet, shouldSet, currRlt, klLock, klPlotter, flagVars,
                   keyVars, plotVars, saveVars>>

\* _setAttrQueue, the increment under the lock (experiment.py:352-353)
SetAttrQueueCount(i) ==
    /\ setWorker[i] = "counting"
    /\ alreadySet' = alreadySet + 1
    /\ setWorker' = [setWorker EXCEPT ![i] = "idle"]
    /\ UNCHANGED <<variables, responses, varLists, skipVarSetIfSame, ptsPerMeasure,
                   parameters, multiThreadReadWrite, saveArg, basePathAbs, fault, pc, error,
                   loopVars, paramAttrs, parametersRead, instrVars, threadsStarted, varQueue,
                   respQueue, getWorker, shouldSet, currRlt, klLock, klPlotter, flagVars,
                   keyVars, plotVars, saveVars>>

----------------------------------------------------------------------------
\* Reading the responses (experiment.py:356-392) and assembling the block
\* (experiment.py:258-259)

\* experiment.py:366, 381: a value without __iter__ is wrapped in a list.
Wrap(v) == IF v.scalar THEN << v.val[1] >> ELSE v.val

\* np.array(rlt).T with rlt one list per response: defined only when the
\* lists have one length; row k holds element k of every response.
Ragged(rlt) == \E a, b \in 1..Len(rlt) : Len(rlt[a]) # Len(rlt[b])
Transposed(rlt) ==
    LET n == IF Len(rlt) = 0 THEN 0 ELSE Len(rlt[1])
    IN  [k \in 1..n |-> [j \in 1..Len(rlt) |-> rlt[j][k]]]

\* np.concatenate((varArray, rltT), axis=1) raises unless both have the same
\* number of rows.
ShapeError(arr, rlt) == Ragged(rlt) \/ Len(Transposed(rlt)) # Len(arr)
ConcatenatedResponsesFirst(arr, rlt) ==
    [k \in 1..Len(arr) |-> Transposed(rlt)[k] \o arr[k]]
Concatenated(arr, rlt) ==
    [k \in 1..Len(arr) |-> arr[k] \o Transposed(rlt)[k]]

\* The first response whose getter raises, 0 when none does.
GetFaultAt ==
    LET bad == {j \in 1..Len(responses) : GetRaises(j)}
    IN  IF bad = {} THEN 0 ELSE CHOOSE j \in bad : \A m \in bad : j <= m

\* _getResponsesSingleThread (experiment.py:362-369) and the concatenation of
\* measure() (experiment.py:258-259). The getters are called in the loop's
\* order; an exception of a getter leaves the loop and the method. getLog
\* holds the calls made, the raising one included.
GetResponsesSingleThread ==
    /\ pc = "get"
    /\ ~multiThreadReadWrite
    /\ LET rlt == [j \in 1..Len(responses) |-> Wrap(Reading(j, instr))]
           at == GetFaultAt
       IN  IF at # 0
           THEN /\ pc' = "aborted"
                /\ error' = "GetterError"
                /\ getLog' = getLog \o [j \in 1..at |-> j]
                /\ UNCHANGED dataArray
           ELSE /\ getLog' = getLog \o [j \in 1..Len(responses) |-> j]
                /\ IF ShapeError(varArray, rlt)
                   THEN /\ pc' = "aborted"
                        /\ error' = "ValueError"
                        /\ UNCHANGED dataArray
                   ELSE /\ pc' = "accumulate"
                        /\ dataArray' = Concatenated(varArray, rlt)
                        /\ UNCHANGED error
    /\ UNCHANGED <<variables, responses, varLists, skipVarSetIfSame, ptsPerMeasure,
                   parameters, multiThreadReadWrite, saveArg, basePathAbs, fault, completed,
                   preVarArray, ptsCount, results, resultsDF, varArray, genPos,
                   genExhausted, nIter, paramAttrs, parametersRead, instr, setLog, threadsStarted,
                   threadVars, klLock, klPlotter, flagVars, keyVars, plotVars,
                   saveVars>>

\* _getResponsesMultiThread, the tokens (experiment.py:372-375)
GetResponsesMultiThreadPut ==
    /\ pc = "get"
    /\ multiThreadReadWrite
    /\ currRlt' = << >>
    /\ respQueue' = [j \in 1..Len(responses) |-> Append(respQueue[j], TRUE)]
    /\ pc' = "getWait"
    /\ UNCHANGED <<variables, responses, varLists, skipVarSetIfSame, ptsPerMeasure,
                   parameters, multiThreadReadWrite, saveArg, basePathAbs, fault, error,
                   loopVars, paramAttrs, parametersRead, instrVars, threadsStarted, varQueue,
                   setWorker, getWorker, alreadySet, shouldSet, klLock, klPlotter, flagVars,
                   keyVars, plotVars, saveVars>>

\* _getAttrQueue (experiment.py:386-392). Nothing in the worker catches an
\* exception of the getter: it ends the worker thread, and no entry is
\* stored for the response.
GetAttrQueue(j) ==
    /\ threadsStarted
    /\ getWorker[j] = "idle"
    /\ Len(respQueue[j]) > 0
    /\ respQueue' = [respQueue EXCEPT ![j] = Tail(@)]
    /\ getLog' = Append(getLog, j)
    /\ IF GetRaises(j)
       THEN /\ getWorker' = [getWorker EXCEPT ![j] = "dead"]
            /\ UNCHANGED currRlt
       ELSE /\ currRlt' = (j :> Reading(j, instr)) @@ currRlt
            /\ UNCHANGED getWorker
    /\ UNCHANGED <<variables, responses, varLists, skipVarSetIfSame, ptsPerMeasure,
                   parameters, multiThreadReadWrite, saveArg, basePathAbs, fault, pc, error,
                   loopVars, paramAttrs, parametersRead, instr, setLog, threadsStarted, varQueue,
                   setWorker, alreadySet, shouldSet, klLock, klPlotter, flagVars,
                   keyVars, plotVars, saveVars>>

\* The exit test of the wait for the responses (experiment.py:377).
AllRead == ~(Cardinality(DOMAIN currRlt) < Len(responses))

\* _getResponsesMultiThread after the wait (experiment.py:377-384) and the
\* concatenation of measure() (experiment.py:258-259)
GetResponsesMultiThreadWait ==
    /\ pc = "getWait"
    /\ AllRead
    /\ LET rlt == [j \in 1..Len(responses) |-> Wrap(currRlt[j])]
       IN  IF ShapeError(varArray, rlt)
           THEN /\ pc' = "aborted"
                /\ error' = "ValueError"
                /\ UNCHANGED dataArray
           ELSE /\ pc' = "accumulate"
                /\ dataArray' = Concatenated(varArray, rlt)
                /\ UNCHANGED error
    /\ UNCHANGED <<variables, responses, varLists, skipVarSetIfSame, ptsPerMeasure,
                   parameters, multiThreadReadWrite, saveArg, basePathAbs, fault, completed,
                   preVarArray, ptsCount, results, resultsDF, varArray, genPos,
                   genExhausted, nIter, paramAttrs, parametersRead, instrVars, threadsStarted,
                   threadVars, klLock, klPlotter, flagVars, keyVars, plotVars,
                   saveVars>>

----------------------------------------------------------------------------
\* Streaming to the plotter (experiment.py:410-442, plotter.py:26-28, 305-309)

StopMsg == [kind |-> "STOP", newLine |-> FALSE, rows |-> << >>]
ToggleSaveMsg == [kind |-> "NO SAVE", newLine |-> FALSE, rows |-> << >>]
DataMsg(newLine, rows) == [kind |-> "data", newLine |-> newLine, rows |-> rows]

\* A variant that leaves out the closing boundary len(dataArray).
GenerateNewLineIndicesOpenEnd(count, n, tmp) ==
    LET start == (count \div tmp) + (IF count % tmp # 0 THEN 1 ELSE 0)
        end == ((count + n) \div tmp) - (IF (count + n) % tmp = 0 THEN 1 ELSE 0)
    IN  << 0 >> \o [k \in 1..(end + 1 - start) |-> (start + k - 1) * tmp - count]

\* _generateNewLineIndices (experiment.py:429-442) for a block of n rows, with
\* count = self._ptsCount and tmp = len(self._varLists[-1])
GenerateNewLineIndices(count, n, tmp) ==
    LET start == (count \div tmp) + (IF count % tmp # 0 THEN 1 ELSE 0)
        end == ((count + n) \div tmp) - (IF (count + n) % tmp = 0 THEN 1 ELSE 0)
    IN  << 0 >> \o [k \in 1..(end + 1 - start) |-> (start + k - 1) * tmp - count]
               \o << n >>

\* A variant of the loop body that marks a segment from the third list
\* position on (i > 2 for i >= 2).
SegmentMsgsLateMark(data, indices, i) ==
    LET start == indices[i]
        end == indices[i + 1]
    IN  IF start = end THEN << >>
        ELSE << DataMsg(i > 2, SubSeq(data, start + 1, end)) >>

\* The loop body of _updatePlotData for list position i (experiment.py:418-427):
\* the message put for the pair (indices[i-1], indices[i]) of the Python list,
\* none when the segment is empty.
SegmentMsgs(data, indices, i) ==
    LET start == indices[i]
        end == indices[i + 1]
    IN  IF start = end THEN << >>
        ELSE << DataMsg(i >= 2, SubSeq(data, start + 1, end)) >>

\* A variant of the streaming step that places the boundaries as if every
\* block began a line.
UpdatePlotDataFromLineStart(data, count, tmp) ==
    LET indices == GenerateNewLineIndices(0, Len(data), tmp)
    IN  Flatten([i \in 1..(Len(indices) - 1) |-> SegmentMsgs(data, indices, i)])

\* _updatePlotData (experiment.py:410-427): the messages put, in order
UpdatePlotData(data, count, tmp) ==
    LET indices == GenerateNewLineIndices(count, Len(data), tmp)
    IN  Flatten([i \in 1..(Len(indices) - 1) |-> SegmentMsgs(data, indices, i)])

\* experiment.py:260-265
Accumulate ==
    /\ pc = "accumulate"
    /\ results' = results \o dataArray
    /\ plotQueue' = plotQueue \o
          UpdatePlotData(dataArray, ptsCount, Len(varLists[Len(varLists)]))
    /\ ptsCount' = ptsCount + Len(varArray)
    /\ nIter' = nIter + 1
    /\ pc' = "testPause"
    /\ UNCHANGED <<variables, responses, varLists, skipVarSetIfSame, ptsPerMeasure,
                   parameters, multiThreadReadWrite, saveArg, basePathAbs, fault, error,
                   completed, preVarArray, resultsDF, varArray, dataArray, genPos,
                   genExhausted, paramAttrs, parametersRead, instrVars, threadsStarted, threadVars,
                   klLock, klPlotter, flagVars, keyVars, plotRead, plotterProc,
                   continuePlotting, plotBuf, plotLines, plotSaveFlag, stopPuts, saveVars>>

----------------------------------------------------------------------------
\* The end of measure() (experiment.py:269-275, 284-287)

\* One turn of the loop at experiment.py:270-272 while the plotter process
\* is alive.
StopPlotting ==
    /\ pc = "stopPlot"
    /\ plotterProc = "alive"
    /\ stopPuts < MaxStopPuts
    /\ plotQueue' = Append(plotQueue, StopMsg)
    /\ stopPuts' = stopPuts + 1
    /\ UNCHANGED <<variables, responses, varLists, skipVarSetIfSame, ptsPerMeasure,
                   parameters, multiThreadReadWrite, saveArg, basePathAbs, fault, pc, error,
                   loopVars, paramAttrs, parametersRead, instrVars, threadsStarted, threadVars,
                   klLock, klPlotter, flagVars, keyVars, plotRead, plotterProc,
                   continuePlotting, plotBuf, plotLines, plotSaveFlag, saveVars>>

\* _createResultDF (experiment.py:284-287)
CreateResultDF == IF results = << >> THEN "None" ELSE "DataFrame"

\* A variant of the end of measure() that does not wait for the plotter
\* process.
MeasureEndNoWait ==
    /\ pc = "stopPlot"
    /\ resultsDF' = CreateResultDF
    /\ pc' = "save"
    /\ UNCHANGED <<variables, responses, varLists, skipVarSetIfSame, ptsPerMeasure,
                   parameters, multiThreadReadWrite, saveArg, basePathAbs, fault,
                   error, completed, preVarArray, ptsCount, results, varArray,
                   dataArray, genPos, genExhausted, nIter, paramAttrs,
                   parametersRead, instrVars, threadsStarted, threadVars, klLock,
                   klPlotter, flagVars, keyVars, plotVars, saveVars>>

\* The loop at experiment.py:270 finds the process dead; experiment.py:275.
MeasureEnd ==
    /\ pc = "stopPlot"
    /\ plotterProc # "alive"
    /\ resultsDF' = CreateResultDF
    /\ pc' = "save"
    /\ UNCHANGED <<variables, responses, varLists, skipVarSetIfSame, ptsPerMeasure,
                   parameters, multiThreadReadWrite, saveArg, basePathAbs, fault, error,
                   completed, preVarArray, ptsCount, results, varArray, dataArray,
                   genPos, genExhausted, nIter, paramAttrs, parametersRead, instrVars, threadsStarted,
                   threadVars, klLock, klPlotter, flagVars, keyVars, plotVars,
                   saveVars>>

\* _generateHeader (experiment.py:474-489) with FileIO.generateHeader
\* (utilities.py:83-89): one line "# key = value" per entry of the header
\* dict. An entry is [key, read, val]: read marks the key that carries the
\* suffix ' (Read)', and val is the text the line shows. The dict is built
\* from the set values, then the read-back values that differ, then
\* 'completed'.
GenerateHeader(items, read, comp) ==
    {[key |-> name, read |-> FALSE, val |-> items[name]] : name \in DOMAIN items}
    \cup {[key |-> name, read |-> TRUE, val |-> read[name]] :
              name \in {k \in DOMAIN read : read[k] # items[k]}}
    \cup {[key |-> "completed", read |-> FALSE, val |-> Str(comp)]}

\* save() (experiment.py:451-472), with createLogEntry overridden as in
\* example.py:39-46 so that the log entry is not empty. np.savetxt is handed
\* self._results, and raises ValueError for None (a 0-dimensional array).
Save ==
    /\ pc = "save"
    /\ IF saveFlag
       THEN /\ logSaved' = TRUE
            /\ IF results = << >>
               THEN /\ error' = "ValueError"
                    /\ pc' = "aborted"
                    /\ UNCHANGED <<dataSaved, header>>
               ELSE /\ dataSaved' = TRUE
                    /\ header' = GenerateHeader(parameters.items, parametersRead,
                                                completed)
                    /\ pc' = "done"
                    /\ UNCHANGED error
       ELSE /\ pc' = "done"
            /\ UNCHANGED <<error, logSaved, dataSaved, header>>
    /\ UNCHANGED <<variables, responses, varLists, skipVarSetIfSame, ptsPerMeasure,
                   parameters, multiThreadReadWrite, saveArg, basePathAbs, fault, loopVars,
                   paramAttrs, parametersRead, instrVars, threadsStarted, threadVars, klLock,
                   klPlotter, flagVars, keyVars, plotVars>>

----------------------------------------------------------------------------
\* KeyboardListener._onRelease (utilities.py:37-58)

Keys == {"stop", "pause", "save"}

\* Whether the loop of measure() has been left.
LoopExited == pc \in {"stopPlot", "save", "done", "aborted"}

\* The lock the handler holds while it changes a flag: `with self._lock:`
\* (utilities.py:41) around the whole body, self._lock being the constructor's
\* lock argument (utilities.py:26).
HandlerLock == klLock

\* The lock the loop holds when it reads a flag: the reads at
\* experiment.py:253 and 280 (and the read of saveFlag at 455) stand in no
\* `with` block. The experiment's own self._lock (experiment.py:155, threaded
\* mode only) is taken at 339 and 352 around self._alreadySet alone.
FlagReadLock == "NoLock"

\* A variant of the handler whose stop branch does not return False: the
\* listener goes on delivering keys after stop.
OnReleaseKeepListening(key) ==
    /\ listenerAlive
    /\ keyCount < MaxKeys
    /\ keyCount' = keyCount + 1
    /\ lastKey' = key
    /\ stopKey' = IF key = "stop" /\ stopKey = NoStopKey
                  THEN [iter |-> nIter, exited |-> LoopExited] ELSE stopKey
    /\ IF klLock = "None"
       THEN /\ listenerAlive' = FALSE
            /\ UNCHANGED <<flagVars, plotQueue>>
       ELSE IF key = "pause"
       THEN /\ pauseFlag' = ~pauseFlag
            /\ UNCHANGED <<stopFlag, saveFlag, plotQueue, listenerAlive>>
       ELSE IF key = "stop"
       THEN /\ plotQueue' = IF klPlotter # "None"
                            THEN Append(plotQueue, StopMsg) ELSE plotQueue
            /\ stopFlag' = TRUE
            /\ UNCHANGED <<pauseFlag, saveFlag, listenerAlive>>
       ELSE /\ saveFlag' = ~saveFlag
            /\ plotQueue' = IF klPlotter # "None"
                            THEN Append(plotQueue, ToggleSaveMsg) ELSE plotQueue
            /\ UNCHANGED <<stopFlag, pauseFlag, listenerAlive>>
    /\ UNCHANGED <<variables, responses, varLists, skipVarSetIfSame, ptsPerMeasure,
                   parameters, multiThreadReadWrite, saveArg, basePathAbs, fault,
                   pc, error, loopVars, paramAttrs, parametersRead, instrVars,
                   threadsStarted, threadVars, klLock, klPlotter, plotRead,
                   plotterProc, continuePlotting, plotBuf, plotLines, plotSaveFlag, stopPuts, saveVars>>

\* `with self._lock:` raises when the lock is None, before the body runs; the
\* exception ends the listener thread. With a lock the body runs as a whole.
\* The stop branch returns False, which stops the listener.
OnRelease(key) ==
    /\ listenerAlive
    /\ keyCount < MaxKeys
    /\ keyCount' = keyCount + 1
    /\ lastKey' = key
    /\ stopKey' = IF key = "stop" /\ stopKey = NoStopKey
                  THEN [iter |-> nIter, exited |-> LoopExited] ELSE stopKey
    /\ IF klLock = "None"
       THEN /\ listenerAlive' = FALSE
            /\ UNCHANGED <<flagVars, plotQueue>>
       ELSE IF key = "pause"
       THEN /\ pauseFlag' = ~pauseFlag
            /\ UNCHANGED <<stopFlag, saveFlag, plotQueue, listenerAlive>>
       ELSE IF key = "stop"
       THEN /\ plotQueue' = IF klPlotter # "None"
                            THEN Append(plotQueue, StopMsg) ELSE plotQueue
            /\ stopFlag' = TRUE
            /\ listenerAlive' = FALSE
            /\ UNCHANGED <<pauseFlag, saveFlag>>
       ELSE /\ saveFlag' = ~saveFlag
            /\ plotQueue' = IF klPlotter # "None"
                            THEN Append(plotQueue, ToggleSaveMsg) ELSE plotQueue
            /\ UNCHANGED <<stopFlag, pauseFlag, listenerAlive>>
    /\ UNCHANGED <<variables, responses, varLists, skipVarSetIfSame, ptsPerMeasure,
                   parameters, multiThreadReadWrite, saveArg, basePathAbs, fault, pc, error,
                   loopVars, paramAttrs, parametersRead, instrVars, threadsStarted, threadVars,
                   klLock, klPlotter, plotRead, plotterProc, continuePlotting, plotBuf, plotLines, plotSaveFlag,
                   stopPuts, saveVars>>

----------------------------------------------------------------------------
\* The plotter process, Plotter._plotQueue (plotter.py:260-283)

\* _plotPoint (plotter.py:212-244) as far as the lines' data go: with
\* new_line a line is added to every axis (_newLine, plotter.py:158-168) and
\* the rows go on it; without, the rows are appended to the last line
\* (_updateSingleAxis, plotter.py:179-183). The text of the labels is not
\* modelled.
PlotPoint(lines, rows, newLine) ==
    IF newLine THEN Append(lines, rows)
    ELSE [lines EXCEPT ![Len(lines)] = @ \o rows]

\* ax.get_lines()[-1] (plotter.py:179) raises IndexError when no line was
\* added yet.
PlotPointRaises(lines, newLine) == ~newLine /\ Len(lines) = 0

\* A variant of _plotBuffer that empties the buffer without plotting it.
PlotBufferDropped(lines, buf) == lines

\* _plotBuffer (plotter.py:298-303): a buffer that holds rows is plotted on
\* the current line and emptied.
PlotBuffer(lines, buf) ==
    IF Len(buf) > 0 THEN PlotPoint(lines, buf, FALSE) ELSE lines

PlotBufferRaises(lines, buf) == Len(buf) > 0 /\ PlotPointRaises(lines, FALSE)

\* One turn of the inner loop (plotter.py:267-280): a message is taken from
\* the queue. STOP clears continuePlotting, TOGGLE_SAVE flips the save flag,
\* a message with NEW_LINE has the buffer plotted and then its own rows on a
\* new line, any other message is appended to the buffer (_fillBuffer,
\* plotter.py:285-289). An exception ends the process.
PlotQueueGet ==
    /\ plotterProc = "alive"
    /\ plotRead < Len(plotQueue)
    /\ plotRead' = plotRead + 1
    /\ LET data == plotQueue[plotRead + 1]
       IN  IF data.kind = "STOP"
           THEN /\ continuePlotting' = FALSE
                /\ UNCHANGED <<plotBuf, plotLines, plotSaveFlag, plotterProc>>
           ELSE IF data.kind = "NO SAVE"
           THEN /\ plotSaveFlag' = ~plotSaveFlag
                /\ UNCHANGED <<plotBuf, plotLines, continuePlotting, plotterProc>>
           ELSE IF data.newLine
           THEN /\ IF PlotBufferRaises(plotLines, plotBuf)
                   THEN /\ plotterProc' = "raised"
                        /\ UNCHANGED <<plotBuf, plotLines>>
                   ELSE /\ plotLines' =
                              PlotPoint(PlotBuffer(plotLines, plotBuf), data.rows, TRUE)
                        /\ plotBuf' = << >>
                        /\ UNCHANGED plotterProc
                /\ UNCHANGED <<continuePlotting, plotSaveFlag>>
           ELSE /\ plotBuf' = plotBuf \o data.rows
                /\ UNCHANGED <<plotLines, continuePlotting, plotSaveFlag, plotterProc>>
    /\ UNCHANGED <<variables, responses, varLists, skipVarSetIfSame, ptsPerMeasure,
                   parameters, multiThreadReadWrite, saveArg, basePathAbs, fault,
                   pc, error, loopVars, paramAttrs, parametersRead, instrVars,
                   threadsStarted, threadVars, klLock, klPlotter, flagVars, keyVars,
                   plotQueue, stopPuts, saveVars>>

\* The inner loop finds the queue empty (plotter.py:267, 281-283): the buffer
\* is plotted; after STOP was taken the outer loop ends, plot() returns and
\* the process exits, otherwise the process sleeps and polls again. A poll
\* that finds nothing to plot and no STOP taken changes nothing.
PlotQueueExit ==
    /\ plotterProc = "alive"
    /\ plotRead = Len(plotQueue)
    /\ ~continuePlotting \/ Len(plotBuf) > 0
    /\ IF PlotBufferRaises(plotLines, plotBuf)
       THEN /\ plotterProc' = "raised"
            /\ UNCHANGED <<plotBuf, plotLines>>
       ELSE /\ plotLines' = PlotBuffer(plotLines, plotBuf)
            /\ plotBuf' = << >>
            /\ plotterProc' = IF continuePlotting THEN "alive" ELSE "exited"
    /\ UNCHANGED <<variables, responses, varLists, skipVarSetIfSame, ptsPerMeasure,
                   parameters, multiThreadReadWrite, saveArg, basePathAbs, fault,
                   pc, error, loopVars, paramAttrs, parametersRead, instrVars,
                   threadsStarted, threadVars, klLock, klPlotter, flagVars, keyVars,
                   plotQueue, plotRead, continuePlotting, plotSaveFlag, stopPuts,
                   saveVars>>

----------------------------------------------------------------------------
\* The program: an experiment is constructed and run() (experiment.py:444-449)

Run ==
    \/ MeasureBegin
    \/ TestPause
    \/ PullBatch
    \/ CheckStop
    \/ SetVariblesSingleThread
    \/ SetVariblesMultiThreadPut
    \/ SetVariblesMultiThreadWait
    \/ \E i \in 1..Len(variables) : SetAttrQueueSet(i)
    \/ \E i \in 1..Len(variables) : SetAttrQueueCount(i)
    \/ GetResponsesSingleThread
    \/ GetResponsesMultiThreadPut
    \/ \E j \in 1..Len(responses) : GetAttrQueue(j)
    \/ GetResponsesMultiThreadWait
    \/ Accumulate
    \/ StopPlotting
    \/ MeasureEnd
    \/ Save
    \/ \E key \in Keys : OnRelease(key)
    \/ PlotQueueGet
    \/ PlotQueueExit

Next == ExperimentInit \/ Run

Spec == Init /\ [][Next]_vars

----------------------------------------------------------------------------
\* The grid enumerator on its own: the generator of _varGridIterator is
\* created for three variables (example.py:23) and drawn one tuple at a time.

GridVariableNames == <<"x0", "x1", "x2">>
GridDomains == Domains \cup {<<1, 0>>}

InitGrid ==
    /\ variables = GridVariableNames
    /\ responses = ResponseNames
    /\ varLists \in [1..Len(GridVariableNames) -> GridDomains]
    /\ skipVarSetIfSame = << >>
    /\ ptsPerMeasure = 1
    /\ parameters = [isDict |-> TRUE, items |-> ParameterItems]
    /\ multiThreadReadWrite = FALSE
    /\ saveArg = TRUE
    /\ basePathAbs = TRUE
    /\ fault = NoFault
    /\ pc = "grid"
    /\ Unconstructed

\* One next(varGridIter) (experiment.py:251): the next tuple of the
\* generator, collected in varArray, or StopIteration.
GridNext ==
    /\ pc = "grid"
    /\ ~genExhausted
    /\ LET grid == VarGridIterator
       IN  IF genPos < Len(grid)
           THEN /\ varArray' = Append(varArray, grid[genPos + 1])
                /\ genPos' = genPos + 1
                /\ UNCHANGED genExhausted
           ELSE /\ genExhausted' = TRUE
                /\ UNCHANGED <<varArray, genPos>>
    /\ UNCHANGED <<variables, responses, varLists, skipVarSetIfSame, ptsPerMeasure,
                   parameters, multiThreadReadWrite, saveArg, basePathAbs, fault, pc, error,
                   completed, preVarArray, ptsCount, results, resultsDF, dataArray,
                   nIter, paramAttrs, parametersRead, instrVars, threadsStarted, threadVars, klLock,
                   klPlotter, flagVars, keyVars, plotVars, saveVars>>

SpecGrid == InitGrid /\ [][GridNext]_vars

----------------------------------------------------------------------------
\* The streaming step on its own: measure() stands before experiment.py:260
\* with a block of n rows assembled, after count rows were streamed in
\* earlier blocks of the same size, for an innermost domain of length L.

\* The row the instruments produce for one grid tuple.
MeasuredRow(t) ==
    LET store == [i \in 1..Len(t) |-> Scalar(t[i])]
    IN  t \o [j \in 1..Len(ResponseNames) |-> GetAttr(j, store).val[1]]

\* The shortest outer domain that makes the grid hold `total` points.
OuterLen(total, L) == CHOOSE m \in 1..total : m * L >= total /\ (m - 1) * L < total

InitPlot ==
    /\ variables = VariableNames
    /\ responses = ResponseNames
    /\ \E n \in 1..MaxPts, L \in 1..MaxLine :
       \E count \in {c \in 0..MaxPts : c % n = 0} :
          /\ varLists = << [k \in 1..OuterLen(count + n, L) |-> k - 1],
                           [k \in 1..L |-> k - 1] >>
          /\ ptsPerMeasure = n
          /\ ptsCount = count
          /\ genPos = count + n
          /\ nIter = (count \div n) + 1
    /\ varArray = SubSeq(VarGridIterator, ptsCount + 1, ptsCount + ptsPerMeasure)
    /\ dataArray = [k \in 1..Len(varArray) |-> MeasuredRow(varArray[k])]
    /\ results = [k \in 1..ptsCount |-> MeasuredRow(VarGridIterator[k])]
    /\ preVarArray = varArray
    /\ skipVarSetIfSame = [i \in 1..Len(VariableNames) |-> FALSE]
    /\ parameters = [isDict |-> TRUE, items |-> WithPause(ParameterItems)]
    /\ paramAttrs = WithPause(ParameterItems)
    /\ parametersRead = GetParametersSingleThread(WithPause(ParameterItems))
    /\ multiThreadReadWrite = FALSE
    /\ saveArg = TRUE
    /\ basePathAbs = TRUE
    /\ fault = NoFault
    /\ pc = "accumulate"
    /\ error = "None"
    /\ completed = TRUE
    /\ resultsDF = "unset"
    /\ genExhausted = FALSE
    /\ instr = [i \in 1..Len(variables) |-> SetValue(i, varArray)]
    /\ setLog = << >>
    /\ getLog = << >>
    /\ threadsStarted = FALSE
    /\ varQueue = [i \in 1..Len(variables) |-> << >>]
    /\ respQueue = [j \in 1..Len(responses) |-> << >>]
    /\ setWorker = [i \in 1..Len(variables) |-> "idle"]
    /\ getWorker = [j \in 1..Len(responses) |-> "idle"]
    /\ alreadySet = 0
    /\ shouldSet = 0
    /\ currRlt = << >>
    /\ klLock = "None"
    /\ klPlotter = "Plotter"
    /\ stopFlag = FALSE
    /\ pauseFlag = FALSE
    /\ saveFlag = TRUE
    /\ listenerAlive = TRUE
    /\ lastKey = "None"
    /\ keyCount = 0
    /\ stopKey = NoStopKey
    /\ plotQueue = << >>
    /\ plotRead = 0
    /\ plotterProc = "alive"
    /\ continuePlotting = TRUE
    /\ plotBuf = << >>
    /\ plotLines = << >>
    /\ plotSaveFlag = TRUE
    /\ stopPuts = 0
    /\ logSaved = FALSE
    /\ dataSaved = FALSE
    /\ header = {}

SpecPlot == InitPlot /\ [][Accumulate]_vars

----------------------------------------------------------------------------
\* A run with an accessor that misbehaves: a valid configuration over a grid
\* of 2 x 2 points, and one setter or getter that raises in some iteration,
\* or one getter that returns a single number. The threads of the program are
\* scheduled fairly.

Faults ==
    {[kind |-> k, idx |-> i, iter |-> t] :
        k \in {"setRaises", "getRaises"}, i \in 1..2, t \in 1..MaxFaultIter}
    \cup {[kind |-> "getScalar", idx |-> i, iter |-> 0] : i \in 1..2}

InitFault ==
    /\ variables = VariableNames
    /\ responses = ResponseNames
    /\ varLists = [i \in 1..Len(VariableNames) |-> << 0, 1 >>]
    /\ skipVarSetIfSame \in {<< >>, [i \in 1..Len(VariableNames) |-> TRUE]}
    /\ ptsPerMeasure \in BatchSizes
    /\ parameters = [isDict |-> TRUE, items |-> NoParameterItems]
    /\ multiThreadReadWrite \in BOOLEAN
    /\ saveArg = TRUE
    /\ basePathAbs = TRUE
    /\ fault \in Faults
    /\ pc = "new"
    /\ Unconstructed

SpecFault == InitFault /\ [][Next]_vars /\ WF_vars(Next)

----------------------------------------------------------------------------
\* The parameters and the header: the experiment of example.py:27 with the
\* parameters p1 and p2, or some of them, is constructed and run over a grid
\* of one point.

ParameterMappings ==
    {[k \in S |-> ParameterItems[k]] : S \in SUBSET (DOMAIN ParameterItems)}

InitHeader ==
    /\ variables = VariableNames
    /\ responses = ResponseNames
    /\ varLists = [i \in 1..Len(VariableNames) |-> << 0 >>]
    /\ skipVarSetIfSame = << >>
    /\ ptsPerMeasure = 1
    /\ parameters \in {[isDict |-> TRUE, items |-> m] : m \in ParameterMappings}
    /\ multiThreadReadWrite \in BOOLEAN
    /\ saveArg \in BOOLEAN
    /\ basePathAbs = TRUE
    /\ fault = NoFault
    /\ pc = "new"
    /\ Unconstructed

SpecHeader == InitHeader /\ [][Next]_vars

----------------------------------------------------------------------------
\* The loop under a listener that holds a lock: the state Experiment.__init__
\* leaves, except that the listener has the lock of its own default
\* (utilities.py:22, lock=Lock()), so that _onRelease runs its body and the
\* flags the loop reads do change.

InitKeys ==
    /\ variables = VariableNames
    /\ responses = ResponseNames
    /\ varLists = [i \in 1..Len(VariableNames) |-> << 0, 1 >>]
    /\ skipVarSetIfSame = [i \in 1..Len(VariableNames) |-> FALSE]
    /\ ptsPerMeasure \in BatchSizes
    /\ parameters = [isDict |-> TRUE, items |-> WithPause(NoParameterItems)]
    /\ paramAttrs = WithPause(NoParameterItems)
    /\ parametersRead = GetParametersSingleThread(WithPause(NoParameterItems))
    /\ multiThreadReadWrite \in BOOLEAN
    /\ saveArg = TRUE
    /\ basePathAbs = TRUE
    /\ fault = NoFault
    /\ pc = "constructed"
    /\ error = "None"
    /\ completed = TRUE
    /\ preVarArray = << >>
    /\ ptsCount = 0
    /\ results = << >>
    /\ resultsDF = "unset"
    /\ varArray = << >>
    /\ dataArray = << >>
    /\ genPos = 0
    /\ genExhausted = FALSE
    /\ instr = [i \in 1..Len(variables) |-> Unset]
    /\ setLog = << >>
    /\ getLog = << >>
    /\ nIter = 0
    /\ threadsStarted = multiThreadReadWrite
    /\ varQueue = [i \in 1..Len(variables) |-> << >>]
    /\ respQueue = [j \in 1..Len(responses) |-> << >>]
    /\ setWorker = [i \in 1..Len(variables) |-> "idle"]
    /\ getWorker = [j \in 1..Len(responses) |-> "idle"]
    /\ alreadySet = 0
    /\ shouldSet = 0
    /\ currRlt = << >>
    /\ klLock = "Lock"
    /\ klPlotter = "Plotter"
    /\ stopFlag = FALSE
    /\ pauseFlag = FALSE
    /\ saveFlag = TRUE
    /\ listenerAlive = TRUE
    /\ lastKey = "None"
    /\ keyCount = 0
    /\ stopKey = NoStopKey
    /\ plotQueue = << >>
    /\ plotRead = 0
    /\ plotterProc = "alive"
    /\ continuePlotting = TRUE
    /\ plotBuf = << >>
    /\ plotLines = << >>
    /\ plotSaveFlag = TRUE
    /\ stopPuts = 0
    /\ logSaved = FALSE
    /\ dataSaved = FALSE
    /\ header = {}

SpecKeys == InitKeys /\ [][Run]_vars

----------------------------------------------------------------------------
\* Properties

DomainSizes == [i \in 1..Len(varLists) |-> Len(varLists[i])]
GridSize == Prod(DomainSizes)

\* The number of points after variable i in one step of variable i.
Stride(i) == Prod(SubSeq(DomainSizes, i + 1, Len(varLists)))

\* The k-th tuple (from 1) of the row-major enumeration of the domains: the
\* position in the last domain advances on every tuple, the position in
\* domain i every Stride(i) tuples.
GridTupleAt(k) ==
    [i \in 1..Len(varLists) |->
        varLists[i][(((k - 1) \div Stride(i)) % Len(varLists[i])) + 1]]

\* C1: for domains of sizes [a,b,c] the generator yields exactly a*b*c
\* tuples, in row-major order with the last variable varying fastest (tuple k
\* is the k-th tuple of that order), and only then raises StopIteration.
C1_GridEnumeration ==
    pc = "grid" =>
        /\ Len(varArray) = genPos
        /\ Len(varArray) <= GridSize
        /\ \A k \in 1..Len(varArray) : varArray[k] = GridTupleAt(k)
        /\ genExhausted => Len(varArray) = GridSize

C1_Witness ==
    /\ pc = "grid"
    /\ genExhausted
    /\ Len(varArray) = 8
    /\ varArray[2][3] # varArray[1][3]
    /\ varArray[4][1] = varArray[1][1]
    /\ varArray[5][1] # varArray[1][1]

\* measure() has returned (experiment.py:275 has run).
MeasureReturned == resultsDF # "unset"

\* C2: when the number of grid tuples is not a multiple of ptsPerMeasure, a
\* run that is never stopped still measures the final short batch and ends
\* with exactly GridSize rows.
C2_ShortBatchKept ==
    (MeasureReturned /\ ~stopFlag /\ stopKey = NoStopKey
        /\ GridSize % ptsPerMeasure # 0)
    => Len(results) = GridSize

\* The iterations of the full sweep, the short final batch included.
FullIterations == (GridSize + ptsPerMeasure - 1) \div ptsPerMeasure

\* C3: a stop delivered before the Nth iteration begins (N not beyond the
\* iterations of the full sweep) ends measure() with fewer rows than the
\* grid and completed = false; a stop delivered only after the last iteration
\* has finished ends it with the full table and completed = true.
C3_StopMidRun ==
    (MeasureReturned /\ stopKey # NoStopKey) =>
        /\ (~stopKey.exited /\ stopKey.iter + 1 <= FullIterations)
              => (Len(results) < GridSize /\ ~completed)
        /\ (stopKey.exited \/ stopKey.iter > FullIterations)
              => (Len(results) = GridSize /\ completed)

\* C4: a stop event delivered while a full batch of grid points is still to
\* be begun makes the stop flag true, and the loop is left with completed =
\* false after finishing at most the iteration that was in flight.
C4_StopHonoured ==
    (LoopExited /\ error = "None" /\ stopKey # NoStopKey /\ ~stopKey.exited
        /\ (stopKey.iter + 1) * ptsPerMeasure <= GridSize)
    => /\ stopFlag
       /\ ~completed
       /\ Len(results) <= stopKey.iter * ptsPerMeasure

\* The rows a sweep that is not stopped accumulates: those of every full
\* batch.
ExpectedRows == (GridSize \div ptsPerMeasure) * ptsPerMeasure

\* C5: with deterministic getters and setters the threaded and the inline
\* mode produce the same result table for the same variables, domains, skip
\* flags and batch size: in either mode, whenever a block has been appended,
\* row k of the table is the measured row of grid tuple k, a function of the
\* domains alone, and the table of a run that is not stopped has
\* ExpectedRows rows, a function of the domains and the batch size alone.
C5_ModesAgree ==
    /\ pc = "testPause" =>
          LET grid == VarGridIterator
          IN  \A k \in 1..Len(results) : results[k] = MeasuredRow(grid[k])
    /\ (pc = "save" /\ ~stopFlag) => Len(results) = ExpectedRows

C5_Witness ==
    /\ multiThreadReadWrite
    /\ MeasureReturned
    /\ Len(results) = 4
    /\ ptsPerMeasure = 2
    /\ \E i \in 1..Len(variables) : skipVarSetIfSame[i]

\* The setter calls of variable i in a log.
SetCalls(log, i) == Cardinality({k \in 1..Len(log) : log[k].var = i})

\* C6: when the set step of a batch completes and column i of the batch
\* equals column i of the batch set before it (same shape), the setter of
\* variable i was called zero times for the batch if skipVarSetIfSame[i] and
\* once otherwise (an absent skip list counts as all false), in both modes.
C6_SkipIfUnchanged ==
    [][(pc \in {"set", "setWait"} /\ pc' = "get" /\ preVarArray # << >>) =>
          \A i \in 1..Len(variables) :
              (Len(varArray) = Len(preVarArray)
                  /\ Column(varArray, i) = Column(preVarArray, i))
              => SetCalls(setLog', i) = (IF skipVarSetIfSame[i] THEN 0 ELSE 1)]_vars

\* The variable columns of the batch measured before the current one.
PreviousBatch ==
    SubSeq(results, Len(results) - ptsPerMeasure + 1, Len(results))

C6_Witness ==
    /\ pc = "get"
    /\ multiThreadReadWrite
    /\ Len(results) >= ptsPerMeasure
    /\ \E i \in 1..Len(variables) :
          /\ skipVarSetIfSame[i]
          /\ Column(varArray, i) = Column(PreviousBatch, i)
          /\ SetCalls(setLog, i) = 0
    /\ \E i \in 1..Len(variables) : SetCalls(setLog, i) = 1

\* The first block of 7 rows has been streamed for an innermost domain of
\* length 3.
C7_Case ==
    /\ pc = "testPause"
    /\ Len(dataArray) = 7
    /\ ptsCount = 7
    /\ Len(varLists[Len(varLists)]) = 3

\* The segment sizes of the data messages on the queue.
SegmentSizes == [m \in 1..Len(plotQueue) |-> Len(plotQueue[m].rows)]
NewLineMarks == [m \in 1..Len(plotQueue) |-> plotQueue[m].newLine]

\* C7 as stated: boundaries [0,3,6,7], segments of 3, 3 and 1 rows, the
\* first sent without NEW_LINE and the next two with it.
C7_Original ==
    C7_Case =>
        /\ GenerateNewLineIndices(0, Len(dataArray), 3) = <<0, 3, 6, 7>>
        /\ SegmentSizes = <<3, 3, 1>>
        /\ NewLineMarks = <<FALSE, TRUE, TRUE>>

\* C7 amended: the boundaries are [0,0,3,6,7]; the empty leading segment is
\* not sent, and the three segments of 3, 3 and 1 rows are all sent with
\* NEW_LINE, in row order.
C7_Amended ==
    C7_Case =>
        /\ GenerateNewLineIndices(ptsCount - Len(dataArray), Len(dataArray),
                                  Len(varLists[Len(varLists)])) = <<0, 0, 3, 6, 7>>
        /\ SegmentSizes = <<3, 3, 1>>
        /\ NewLineMarks = <<TRUE, TRUE, TRUE>>
        /\ Flatten([m \in 1..Len(plotQueue) |-> plotQueue[m].rows]) = dataArray

C7_Witness == C7_Case /\ Len(plotQueue) = 3

\* C8: the save flag starts at the constructor's save argument and is only
\* flipped by toggle-save events; save() persists exactly when the flag is
\* true, so an experiment constructed with save=False that receives no
\* toggle-save event persists nothing.
C8_SaveFlag ==
    (pc \notin {"new", "raised", "grid"} /\ lastKey # "save") =>
        /\ saveFlag = saveArg
        /\ ~saveArg => (~logSaved /\ ~dataSaved)

\* C9: with an empty domain, measure and then save (save flag true) make no
\* set or get call and end with an absent result, without an error.
C9_EmptySweep ==
    (pc \notin {"new", "raised", "grid"} /\ \E i \in 1..Len(varLists) : Len(varLists[i]) = 0) =>
        /\ setLog = << >>
        /\ getLog = << >>
        /\ error = "None"
        /\ MeasureReturned => resultsDF = "None"

\* The lists given for the variables disagree in length (an empty skip list
\* is an absent one), the base path is relative or the parameters are no dict.
BadConfiguration ==
    \/ Len(variables) # Len(varLists)
    \/ Len(skipVarSetIfSame) \notin {0, Len(variables)}
    \/ ~basePathAbs
    \/ ~parameters.isDict

\* C10: a bad configuration raises in the constructor, before any parameter
\* is set, any worker thread or the plotter process is started, and before
\* any iteration.
C10_ConfigRaises ==
    (pc \notin {"new", "grid"} /\ BadConfiguration) =>
        /\ pc = "raised"
        /\ paramAttrs = << >>
        /\ ~threadsStarted
        /\ plotterProc = "unset"
        /\ nIter = 0

\* A setter or a getter has raised: in the main thread, or in a worker.
AccessorRaised ==
    \/ error \in {"SetterError", "GetterError"}
    \/ \E i \in 1..Len(variables) : setWorker[i] = "dead"
    \/ \E j \in 1..Len(responses) : getWorker[j] = "dead"

\* C11: in either mode, once a setter or a getter has raised during an
\* iteration, the exception leaves measure() and the run is aborted with it.
C11_RaisePropagates ==
    AccessorRaised ~> (pc = "aborted" /\ error \in {"SetterError", "GetterError"})

\* C12: when the run is aborted inside an iteration, STOP has been sent to
\* the plotter, completed is false and, the save flag being true, the log and
\* the rows assembled before the abort have been saved with completed=False
\* in the header.
C12_AbortStopsAndSaves ==
    (pc = "aborted" /\ resultsDF = "unset") =>
        /\ \E m \in 1..Len(plotQueue) : plotQueue[m] = StopMsg
        /\ ~completed
        /\ saveFlag =>
              /\ logSaved
              /\ results # << >> =>
                    /\ dataSaved
                    /\ [key |-> "completed", read |-> FALSE, val |-> "False"] \in header

\* C13: in both modes, when a getter is called, every set call of the
\* iteration has completed: no value waits in a variable's queue, no worker
\* is inside a call, the coordinator has left the set step, and every
\* variable's instrument holds the iteration's column.
C13_SetBeforeGet ==
    [][Len(getLog') > Len(getLog) =>
          /\ pc \in {"get", "getWait"}
          /\ preVarArray = varArray
          /\ \A i \in 1..Len(variables) :
                /\ varQueue[i] = << >>
                /\ setWorker[i] = "idle"
                /\ instr[i] = SetValue(i, varArray)]_vars

C13_Witness ==
    /\ multiThreadReadWrite
    /\ pc = "getWait"
    /\ nIter = 2
    /\ Len(setLog) = 2
    /\ setLog[1].var = 2
    /\ Len(getLog) = 1

\* C14: after every completed iteration the table holds the blocks of the
\* iterations in order: it has ptsPerMeasure rows per iteration, its last
\* rows are the block just assembled, and row k is grid tuple k followed by
\* the responses read for it, in declared order.
C14_TableIsConcatenation ==
    pc = "testPause" =>
        LET grid == VarGridIterator
        IN  /\ Len(results) = (nIter - 1) * ptsPerMeasure
            /\ nIter > 1 =>
                  SubSeq(results, Len(results) - Len(dataArray) + 1, Len(results))
                      = dataArray
            /\ \A k \in 1..Len(results) :
                  /\ Len(results[k]) = Len(variables) + Len(responses)
                  /\ SubSeq(results[k], 1, Len(variables)) = grid[k]
                  /\ results[k] = MeasuredRow(grid[k])

C14_Witness ==
    /\ pc = "testPause"
    /\ nIter = 3
    /\ ptsPerMeasure = 2
    /\ Len(results) = 4
    /\ results[1] # results[3]

\* The rows of the data messages on the queue, in queue order.
DataRows ==
    Flatten([m \in 1..Len(plotQueue) |->
                IF plotQueue[m].kind = "data" THEN plotQueue[m].rows ELSE << >>])

\* C15: the rows of the data messages put on the queue, in queue order, are
\* the rows of the table in order, and no data message is empty.
C15_QueueRowsAreTableRows ==
    /\ pc = "testPause" => DataRows = results
    /\ \A m \in 1..Len(plotQueue) :
          plotQueue[m].kind = "data" => plotQueue[m].rows # << >>

\* One block of two rows has been streamed as two messages, its empty first
\* segment left out.
C15_Witness ==
    /\ pc = "testPause"
    /\ ptsPerMeasure = 2
    /\ Len(results) = 2
    /\ GenerateNewLineIndices(0, 2, Len(varLists[Len(varLists)])) = <<0, 0, 1, 2>>
    /\ Cardinality({m \in 1..Len(plotQueue) : plotQueue[m].kind = "data"}) = 2

\* The header the parameters call for: every parameter with its set value,
\* a (Read) entry for every parameter whose getter returns another value, and
\* completed.
ExpectedHeader ==
    LET items == parameters.items
    IN  {[key |-> name, read |-> FALSE, val |-> items[name]] : name \in DOMAIN items}
        \cup {[key |-> name, read |-> TRUE, val |-> ReadBack(name, items)] :
                 name \in {k \in DOMAIN items : ReadBack(k, items) # items[k]}}
        \cup {[key |-> "completed", read |-> FALSE, val |-> Str(completed)]}

\* C16: the header written holds one entry per parameter with its set value,
\* a (Read) entry exactly for the parameters whose read-back value differs
\* from the set value (p2, set to 2 and read as 2.71828; not p1), and one
\* completed entry.
C16_HeaderEntries ==
    header # {} => header = ExpectedHeader

\* C17: with a batch of more than one row, a getter that returns a scalar
\* gives a column of ptsPerMeasure rows holding the scalar, and the block is
\* assembled without an error.
C17_ScalarBroadcast ==
    (fault.kind = "getScalar" /\ ptsPerMeasure > 1
        /\ pc \in {"accumulate", "aborted"})
    => /\ pc = "accumulate"
       /\ error = "None"
       /\ Len(dataArray) = ptsPerMeasure
       /\ \A k \in 1..Len(dataArray) :
             /\ Len(dataArray[k]) = Len(variables) + Len(responses)
             /\ dataArray[k][Len(variables) + fault.idx]
                    = dataArray[1][Len(variables) + fault.idx]

\* C18: once measure() has created the result table, whether the loop ended
\* by exhaustion or by observing stop, the plotter process has exited and a
\* STOP is on the queue.
C18_WaitsForConsumer ==
    MeasureReturned =>
        /\ plotterProc = "exited"
        /\ \E m \in 1..Len(plotQueue) : plotQueue[m] = StopMsg

C18_Witness ==
    /\ MeasureReturned
    /\ stopFlag
    /\ ~completed
    /\ stopPuts >= 1
    /\ Len(results) > 0

\* C19: in both modes the setters called in an iteration are called in the
\* declared order of the variables.
C19_DeclaredOrder ==
    \A a, b \in 1..Len(setLog) : a < b => setLog[a].var < setLog[b].var

\* C19 as the code has it: in inline mode the setters called in an iteration
\* are called in the declared order of the variables; in threaded mode the
\* values are handed to the workers in declared order, the workers call the
\* setters concurrently, and no setter is called twice in an iteration.
C19_DeclaredOrderInline ==
    /\ ~multiThreadReadWrite => C19_DeclaredOrder
    /\ multiThreadReadWrite =>
           \A a, b \in 1..Len(setLog) : a # b => setLog[a].var # setLog[b].var

C19_Witness ==
    /\ ~multiThreadReadWrite
    /\ pc = "get"
    /\ Len(variables) = 2
    /\ Len(setLog) = 2
    /\ setLog[1].var = 1
    /\ setLog[2].var = 2

\* C20: the loop leaves the wait at the top of an iteration only on a read
\* that does not show pause without stop; a read that shows stop ends the
\* wait whatever pause is; and from then on the loop goes to its exit without
\* a set or a get call.
C20_PauseWait ==
    [][/\ (pc = "testPause" /\ pc' # "testPause") => ~(pauseFlag /\ ~stopFlag)
       /\ (pc = "testPause" /\ stopFlag) => PauseAndNotStop(pauseFlag, stopFlag) = 0
       /\ (stopFlag /\ pc \in {"testPause", "pull", "checkStop"}) =>
             /\ setLog' = setLog
             /\ getLog' = getLog
             /\ pc' \in {"testPause", "pull", "checkStop", "stopPlot"}]_vars

C20_Witness ==
    /\ pc = "stopPlot"
    /\ pauseFlag
    /\ stopFlag
    /\ ~completed
    /\ lastKey = "stop"
    /\ keyCount >= 2
    /\ Len(results) > 0

\* C21: once the stop flag is true no step makes it false, and from then on
\* no step changes the pause flag or the save flag.
C21_StopIsTerminal ==
    [][stopFlag =>
          /\ stopFlag'
          /\ pauseFlag' = pauseFlag
          /\ saveFlag' = saveFlag]_vars

C21_Witness ==
    /\ stopFlag
    /\ pauseFlag
    /\ ~listenerAlive
    /\ keyCount = 2
    /\ pc = "done"

\* C22: the handler changes a flag, and the loop reads the stop and pause
\* flags, only while holding one and the same exclusive lock.
C22_OneLock ==
    [][/\ (keyCount' # keyCount /\ flagVars' # flagVars) => HandlerLock = "Lock"
       /\ (pc \in {"testPause", "checkStop"} /\ pc' # pc) =>
             /\ HandlerLock = "Lock"
             /\ FlagReadLock = HandlerLock]_vars

\* C23: a batch after whose pull the loop sees stop is dropped: the loop
\* goes to its exit with no set or get call, and the table and the queue's
\* data rows stay as they were, one batch short of what the generator gave.
\* The loop never leaves from inside an iteration past that test: when it
\* exits, every batch whose set step began is in the table and on the queue.
C23_StopBetweenPullAndSet ==
    [][/\ (pc = "checkStop" /\ stopFlag) =>
             /\ pc' \in {"checkStop", "stopPlot"}
             /\ setLog' = setLog
             /\ getLog' = getLog
             /\ instr' = instr
             /\ results' = results
             /\ DataRows' = DataRows
             /\ Len(results) = genPos - ptsPerMeasure
       /\ pc \in {"set", "setWait", "get", "getWait", "accumulate"} =>
             pc' \in {"set", "setWait", "get", "getWait", "accumulate", "testPause"}
       /\ (pc # "stopPlot" /\ pc' = "stopPlot") =>
             /\ Len(results') = (nIter - 1) * ptsPerMeasure
             /\ DataRows' = results']_vars

\* Stop came during the first iteration after its set step had begun: the
\* first batch is in the table, the second was pulled and dropped.
C23_Witness ==
    /\ pc = "stopPlot"
    /\ stopFlag
    /\ ~completed
    /\ stopKey.iter = 1
    /\ nIter = 2
    /\ Len(results) = ptsPerMeasure
    /\ genPos = 2 * ptsPerMeasure
    /\ DataRows = results

\* C24: in threaded mode, once the setter of a variable has raised in its
\* worker the count stays below the number of variables to set and the
\* coordinator stays in its wait: no getter is called and measure() does not
\* return; once a getter has raised in its worker the coordinator stays in
\* the wait for the responses.
C24_WorkerRaiseHangs ==
    /\ (\E i \in 1..Len(variables) : setWorker[i] = "dead") =>
           /\ multiThreadReadWrite
           /\ pc = "setWait"
           /\ alreadySet < shouldSet
           /\ getLog = << >>
           /\ ~MeasureReturned
    /\ (\E j \in 1..Len(responses) : getWorker[j] = "dead") =>
           /\ multiThreadReadWrite
           /\ pc = "getWait"
           /\ ~AllRead
           /\ ~MeasureReturned

\* In the second iteration the setter of the first variable has raised, the
\* worker of the second has set and counted.
C24_Witness ==
    /\ multiThreadReadWrite
    /\ pc = "setWait"
    /\ nIter = 2
    /\ setWorker[1] = "dead"
    /\ setWorker[2] = "idle"
    /\ shouldSet = 2
    /\ alreadySet = 1

\* C25: in threaded mode the count of completed sets lies between 0 and the
\* number of variables the batch has to set; the coordinator leaves the set
\* step only when the two are equal, and then every variable to set has had
\* exactly one setter call, with the batch's value, and every skipped
\* variable none.
C25_CompletedCount ==
    [][multiThreadReadWrite =>
          /\ 0 <= alreadySet
          /\ alreadySet <= shouldSet
          /\ pc = "setWait" => shouldSet = Len(ToSet(varArray))
          /\ \A i \in 1..Len(variables) : SetCalls(setLog', i) <= 1
          /\ (pc = "setWait" /\ pc' # "setWait") =>
                /\ alreadySet = shouldSet
                /\ pc' = "get"
                /\ \A i \in 1..Len(variables) :
                      SetCalls(setLog, i) = IF SkipSet(i, varArray) THEN 0 ELSE 1
                /\ \A k \in 1..Len(setLog) :
                      setLog[k].val = SetValue(setLog[k].var, varArray)]_vars

\* The second batch has set its second variable only, the first being
\* skipped as unchanged.
C25_Witness ==
    /\ multiThreadReadWrite
    /\ pc = "get"
    /\ nIter = 2
    /\ shouldSet = 1
    /\ alreadySet = 1
    /\ Len(setLog) = 1
    /\ setLog[1].var = 2

\* The global index (from 0) of the first row of message m: the rows streamed
\* before the messages on the queue, and the rows of the data messages ahead
\* of m.
FirstRow(m) ==
    (ptsCount - Len(DataRows))
    + Len(Flatten([q \in 1..(m - 1) |->
                      IF plotQueue[q].kind = "data" THEN plotQueue[q].rows ELSE << >>]))

\* C26: with L the length of the last variable's domain, a data message
\* carries the NEW_LINE marker exactly when the global index of its first row
\* is a multiple of L, and all its rows lie between two consecutive multiples
\* of L.
C26_NewLineAtMultiples ==
    pc = "testPause" =>
        LET L == Len(varLists[Len(varLists)])
        IN  \A m \in 1..Len(plotQueue) :
               plotQueue[m].kind = "data" =>
                  /\ plotQueue[m].newLine <=> (FirstRow(m) % L = 0)
                  /\ FirstRow(m) \div L
                        = (FirstRow(m) + Len(plotQueue[m].rows) - 1) \div L

\* A block of 7 rows that begins at global row 7 with L = 3: the rows 7-8
\* end a line and go unmarked, the rows 9-11 and 12-13 are marked.
C26_Witness ==
    /\ pc = "testPause"
    /\ Len(varLists[Len(varLists)]) = 3
    /\ ptsPerMeasure = 7
    /\ ptsCount = 14
    /\ Len(plotQueue) = 3
    /\ ~plotQueue[1].newLine
    /\ plotQueue[2].newLine
    /\ Len(plotQueue[1].rows) = 2

\* C27: no step changes the caller's parameter mapping, variable list,
\* domain list or response list.
C27_InputsUnchanged ==
    [][/\ parameters' = parameters
       /\ variables' = variables
       /\ varLists' = varLists
       /\ responses' = responses]_vars

\* C28: after construction in threaded mode parametersRead has one entry per
\* parameter, holding what that parameter's own getter returns.
C28_ParametersRead ==
    (multiThreadReadWrite /\ pc \notin {"new", "raised"}) =>
        /\ DOMAIN parametersRead = DOMAIN parameters.items
        /\ \A name \in DOMAIN parameters.items :
              parametersRead[name] = ReadBack(name, parameters.items)

C30_InstrumentsHoldBatch ==
    pc \in {"get", "getWait"} =>
        \A i \in 1..Len(variables) : instr[i] = SetValue(i, varArray)

\* The second batch of two rows: the first variable was set, the second was
\* skipped and still holds its column.
C30_Witness ==
    /\ pc \in {"get", "getWait"}
    /\ nIter = 2
    /\ ptsPerMeasure = 2
    /\ Len(setLog) = 1
    /\ setLog[1].var = 1
    /\ skipVarSetIfSame[2]
    /\ instr[2] = Vector(<< 0, 1 >>)
    /\ instr[1] = Vector(<< 1, 1 >>)

\* The rows of the data messages at the queue positions from..to, in order.
RowsBetween(from, to) ==
    Flatten([q \in 1..(to - from + 1) |->
                IF plotQueue[from + q - 1].kind = "data"
                THEN plotQueue[from + q - 1].rows ELSE << >>])

\* The positions of the messages with NEW_LINE that the consumer has taken,
\* in order.
LineStarts ==
    SelectSeq([m \in 1..plotRead |-> m],
              LAMBDA m : plotQueue[m].kind = "data" /\ plotQueue[m].newLine)

\* How many messages of a kind the consumer has taken.
Taken(kind) == Cardinality({m \in 1..plotRead : plotQueue[m].kind = kind})

\* C31: the consumer takes the messages in queue order and loses no row:
\* every message with NEW_LINE it has taken begins a line, a line holds its
\* rows and the rows of the unmarked messages taken up to the next NEW_LINE
\* message (the buffer is plotted before a new line is), and the rows after
\* the last NEW_LINE message are on the last line or in the buffer. The
\* process has left its loop only after it took STOP, with the buffer
\* plotted and the rows of every message ahead of the first STOP on the
\* lines, in queue order. Its save flag has flipped once per TOGGLE_SAVE
\* taken, and no plotting raises.
C31_ConsumerPlotsInOrder ==
    LET starts == LineStarts
        n == Len(starts)
    IN  /\ plotterProc # "raised"
        /\ Len(plotLines) = n
        /\ \A k \in 1..(n - 1) :
              plotLines[k] = RowsBetween(starts[k], starts[k + 1] - 1)
        /\ n > 0 => plotLines[n] \o plotBuf = RowsBetween(starts[n], plotRead)
        /\ n = 0 => plotBuf = RowsBetween(1, plotRead)
        /\ Flatten(plotLines) \o plotBuf = RowsBetween(1, plotRead)
        /\ continuePlotting <=> Taken("STOP") = 0
        /\ plotSaveFlag <=> (Taken("NO SAVE") % 2 = 0)
        /\ plotterProc = "exited" =>
              /\ Taken("STOP") > 0
              /\ plotBuf = << >>
              /\ LET first == CHOOSE m \in 1..plotRead :
                                  /\ plotQueue[m].kind = "STOP"
                                  /\ \A q \in 1..(m - 1) : plotQueue[q].kind # "STOP"
                     ahead == RowsBetween(1, first - 1)
                 IN  SubSeq(Flatten(plotLines), 1, Len(ahead)) = ahead

\* A run of four batches of one row over lines of two points, with the save
\* key released once: the consumer has exited with two lines of two rows,
\* the second row of each taken from the buffer, and its save flag flipped.
C31_Witness ==
    /\ plotterProc = "exited"
    /\ completed
    /\ Len(plotLines) = 2
    /\ Len(plotLines[1]) = 2
    /\ Len(plotLines[2]) = 2
    /\ ~plotSaveFlag
    /\ Taken("data") = 4

====
